---- MODULE Spec2Model ----
(***************************************************************************)
(* State-machine model of PlaywrightSniff (src/src/monitor.ts) and of the  *)
(* pure helpers it uses (src/src/utils.ts).                                *)
(*                                                                         *)
(* JavaScript runs the monitor on one cooperative event loop: a step of    *)
(* the model is the code that runs between two suspension points (await),  *)
(* or one driver event dispatched to every registered handler.             *)
(* Strings are sequences of one-character strings; an optional field is a  *)
(* sequence of length 0 or 1.                                              *)
(***************************************************************************)
EXTENDS Integers, Sequences, FiniteSets, TLC

\* ------------------------------------------------------------------ bounds
MaxEvents == 2      \* API calls and driver events that record something, per run
MaxSessions == 2    \* effective start() calls per monitor instance
MaxTime == 3        \* last instant of the clock (Date.now())
MaxInflight == 2    \* calls and handlers suspended at an await at one time
MaxThreshold == 2   \* largest configured slowThreshold
MaxSnapshots == 2   \* snapshots written to the JSON report file per run
MaxReports == 2     \* reports of getResults() the caller keeps
MaxRequests == 3    \* request details of a session whose report is computed

\* ------------------------------------------------------------------ inputs
ESC == "ESC"
NL == "NL"
Labels == {<<"L1">>, <<"L2">>}
\* Error messages a measured action rejects with: "b", "b\ns" and
\* "\e[31mb\e[0m\ns".
Messages ==
  { <<"b">>,
    <<"b", NL, "s">>,
    <<ESC, "[", "3", "1", "m", "b", ESC, "[", "0", "m", NL, "s">> }
Urls == {"u1", "u2"}
Bodies == {<<"o", "o", "p", "s">>}
ConsoleTypes == {"error", "log"}
\* process.ppid of this run.
CurrentPpid == "p1"

\* ----------------------------------------------------------- pure helpers
Digits == {"0", "1", "2", "3", "4", "5", "6", "7", "8", "9", ";"}

\* Length of the match of [0-9;]*m at the head of s, or 0 when there is none.
RECURSIVE ParamsThenM(_)
ParamsThenM(s) ==
  IF s = <<>> THEN 0
  ELSE IF Head(s) = "m" THEN 1
  ELSE IF Head(s) \in Digits
       THEN LET k == ParamsThenM(Tail(s)) IN IF k = 0 THEN 0 ELSE k + 1
  ELSE 0

\* Length of the match of /\u001b\[[0-9;]*m/ at the head of s, or 0.
AnsiMatch(s) ==
  IF Len(s) >= 3 /\ s[1] = ESC /\ s[2] = "["
  THEN LET k == ParamsThenM(SubSeq(s, 3, Len(s))) IN IF k = 0 THEN 0 ELSE k + 2
  ELSE 0

\* message.replace(/\u001b\[[0-9;]*m/g, '')
RECURSIVE StripAnsi(_)
StripAnsi(s) ==
  IF s = <<>> THEN <<>>
  ELSE LET k == AnsiMatch(s) IN
       IF k > 0 THEN StripAnsi(SubSeq(s, k + 1, Len(s)))
       ELSE <<Head(s)>> \o StripAnsi(Tail(s))

\* s.split('\n')[0]
RECURSIVE FirstLine(_)
FirstLine(s) ==
  IF s = <<>> \/ Head(s) = NL THEN <<>>
  ELSE <<Head(s)>> \o FirstLine(Tail(s))

\* cleanErrorMessage returns at its first return statement: the stripped
\* message. The statement taking the first line comes after it and never runs.
cleanErrorMessage(raw) == StripAnsi(raw)

\* s.substring(0, n)
Take(s, n) == SubSeq(s, 1, IF Len(s) < n THEN Len(s) ELSE n)

RECURSIVE SumSeq(_)
SumSeq(s) == IF s = <<>> THEN 0 ELSE Head(s) + SumSeq(Tail(s))

calculateAverageZeroForNone(values) ==
  IF Len(values) = 0 THEN <<0>>
  ELSE <<(2 * 100 * SumSeq(values) + Len(values)) \div (2 * Len(values))>>

\* calculateAverage: null (<<>>) for no values, else (total / n).toFixed(2),
\* kept as a count of hundredths.
calculateAverage(values) ==
  IF Len(values) = 0 THEN <<>>
  ELSE <<(2 * 100 * SumSeq(values) + Len(values)) \div (2 * Len(values))>>

RECURSIVE SelectSeqByOrEqual(_, _)
SelectSeqByOrEqual(s, t) ==
  IF s = <<>> THEN <<>>
  ELSE IF Head(s).duration >= t THEN <<Head(s)>> \o SelectSeqByOrEqual(Tail(s), t)
  ELSE SelectSeqByOrEqual(Tail(s), t)

\* Array.prototype.filter with the predicate "duration > t".
RECURSIVE SelectSeqBy(_, _)
SelectSeqBy(s, t) ==
  IF s = <<>> THEN <<>>
  ELSE IF Head(s).duration > t THEN <<Head(s)>> \o SelectSeqBy(Tail(s), t)
  ELSE SelectSeqBy(Tail(s), t)

\* Insert r after every entry whose duration is >= r.duration (stable).
RECURSIVE InsertDesc(_, _)
InsertDesc(sorted, r) ==
  IF sorted = <<>> THEN <<r>>
  ELSE IF Head(sorted).duration >= r.duration
       THEN <<Head(sorted)>> \o InsertDesc(Tail(sorted), r)
  ELSE <<r>> \o sorted

\* Array.prototype.sort((a, b) => b.duration - a.duration): stable, descending.
RECURSIVE SortDesc(_)
SortDesc(s) ==
  IF s = <<>> THEN <<>>
  ELSE InsertDesc(SortDesc(SubSeq(s, 1, Len(s) - 1)), s[Len(s)])

RECURSIVE Durations(_)
Durations(s) == IF s = <<>> THEN <<>> ELSE <<Head(s).duration>> \o Durations(Tail(s))

RECURSIVE NotFailedKeepsAll(_)
NotFailedKeepsAll(s) ==
  IF s = <<>> THEN <<>> ELSE <<Head(s)>> \o NotFailedKeepsAll(Tail(s))

RECURSIVE NotFailed(_)
NotFailed(s) ==
  IF s = <<>> THEN <<>>
  ELSE IF ~Head(s).failed THEN <<Head(s)>> \o NotFailed(Tail(s))
  ELSE NotFailed(Tail(s))

\* n copies of s in a row: what n handlers append when each appends s.
RECURSIVE Repeat(_, _)
Repeat(s, n) == IF n = 0 THEN <<>> ELSE s \o Repeat(s, n - 1)

RemoveAt(s, i) == SubSeq(s, 1, i - 1) \o SubSeq(s, i + 1, Len(s))

StatusText(st) ==
  CASE st = 200 -> "200" [] st = 404 -> "404" [] st = 500 -> "500"
    [] st = 599 -> "599" [] st = 600 -> "600" [] OTHER -> "?"

\* ------------------------------------------------------------------- state
VARIABLES
  slowThreshold,            \* options.slowThreshold
  captureScreenshots,       \* options.captureScreenshots
  failures,                 \* this.failures
  showStoppers,             \* this.showStoppers
  requestStartTimes,        \* this.requestStartTimes: url -> instant, 0 = no key
  requestDurations,         \* this.requestDurations
  detailedRequestDurations, \* this.detailedRequestDurations
  timings,                  \* this.timings
  isMonitoring,             \* this.isMonitoring
  listeners,                \* handler sets registered on the page by start()
  inflight,                 \* calls and handlers suspended at an await
  now,                      \* Date.now()
  file,                     \* the JSON report file (options.outputFile)
  html,                     \* snapshots rendered into options.outputHTML
  alive,                    \* FALSE once process.exit(1) has run
  events,                   \* recording calls and events so far in this run
  ev,                       \* the step just taken and what its caller saw
  results                   \* the reports the caller got from getResults(), newest first

collections ==
  <<failures, showStoppers, requestDurations, detailedRequestDurations, timings>>
session ==
  <<failures, showStoppers, requestStartTimes, requestDurations,
    detailedRequestDurations, timings>>
options == <<slowThreshold, captureScreenshots>>
vars ==
  <<slowThreshold, captureScreenshots, failures, showStoppers, requestStartTimes,
    requestDurations, detailedRequestDurations, timings, isMonitoring, listeners,
    inflight, now, file, html, alive, events, ev, results>>

\* What a step reports: the operation or event, the part of it that ran,
\* whether the monitor was Running when the call was made, what the caller
\* saw (pending: suspended at an await), the level of the last log line, and
\* for measureAction how often the step invoked the wrapped action.
Ev(op, phase, outcome, log) ==
  [op |-> op, phase |-> phase, outcome |-> outcome, log |-> log,
   running |-> FALSE, label |-> <<>>, error |-> <<>>, calls |-> 0]

Task(kind, phase, label, crit) ==
  [kind |-> kind, phase |-> phase, label |-> label, crit |-> crit, start |-> 0,
   url |-> "", method |-> "", status |-> 0, origin |-> "user"]

NoFile == [state |-> "absent", hasArray |-> FALSE, pid |-> <<>>, reportData |-> <<>>]

Init ==
  /\ slowThreshold \in 1..MaxThreshold
  /\ captureScreenshots \in BOOLEAN
  /\ failures = <<>>
  /\ showStoppers = <<>>
  /\ requestStartTimes = [u \in Urls |-> 0]
  /\ requestDurations = <<>>
  /\ detailedRequestDurations = <<>>
  /\ timings = <<>>
  /\ isMonitoring = FALSE
  /\ listeners = 0
  /\ inflight = <<>>
  /\ now = 1
  /\ file = NoFile
  /\ html = 0
  /\ alive = TRUE
  /\ events = 0
  /\ ev = Ev("new", "call", "returned", "none")
  /\ results = <<>>

\* ------------------------------------------------------------ the monitor
hasShowStoppersOffByOne == Len(showStoppers) > 1

hasShowStoppers == Len(showStoppers) > 0

getResultsCountsCalls ==
  [timestamp |-> now + Len(results),
   passed |-> Len(showStoppers) = 0,
   showStoppers |-> showStoppers,
   slowThreshold |-> slowThreshold,
   pageLoadSteps |-> timings,
   avgLoadTime |-> calculateAverage(Durations(NotFailed(timings))),
   avgRequestTime |-> calculateAverage(requestDurations),
   slowRequests |-> SortDesc(SelectSeqBy(detailedRequestDurations, slowThreshold)),
   failures |-> failures]

\* getResults().reportData[0]
getResults ==
  [timestamp |-> now,
   passed |-> Len(showStoppers) = 0,
   showStoppers |-> showStoppers,
   slowThreshold |-> slowThreshold,
   pageLoadSteps |-> timings,
   avgLoadTime |-> calculateAverage(Durations(NotFailed(timings))),
   avgRequestTime |-> calculateAverage(requestDurations),
   slowRequests |-> SortDesc(SelectSeqBy(detailedRequestDurations, slowThreshold)),
   failures |-> failures]

\* The k-th of the report objects the caller holds, as it reads now.
\* getResults() puts the session's own arrays into the report (showStoppers,
\* pageLoadSteps and failures are references, slowRequests is a new array),
\* so while `live` the three lists read as the session's arrays do.
heldReport(k) ==
  IF results[k].live
  THEN [results[k].report EXCEPT !.showStoppers = showStoppers,
                                 !.pageLoadSteps = timings,
                                 !.failures = failures]
  ELSE results[k].report

\* start() assigns new arrays to the session's fields: a report handed out
\* before keeps the arrays it refers to, which nothing appends to any more.
detached ==
  [k \in 1..Len(results) |-> [report |-> heldReport(k), live |-> FALSE]]

\* getResults() called by the test, which keeps the reports of its last
\* MaxReports calls, newest first.
GetResults ==
  /\ alive
  /\ results' = Take(<<[report |-> getResults, live |-> TRUE]>> \o results, MaxReports)
  /\ ev' = [Ev("getResults", "call", "returned", "none") EXCEPT !.running = isMonitoring]
  /\ UNCHANGED <<options, session, isMonitoring, listeners, inflight, now, file,
                 html, alive, events>>

StartKeepsTimings ==
  /\ alive
  /\ IF isMonitoring
     THEN /\ ev' = [Ev("start", "call", "returned", "warn") EXCEPT !.running = TRUE]
          /\ UNCHANGED <<options, results, session, isMonitoring, listeners, inflight, now,
                         file, html, alive, events>>
     ELSE /\ listeners < MaxSessions
          /\ failures' = <<>>
          /\ showStoppers' = <<>>
          /\ requestStartTimes' = [u \in Urls |-> 0]
          /\ requestDurations' = <<>>
          /\ detailedRequestDurations' = <<>>
          /\ isMonitoring' = TRUE
          /\ listeners' = listeners + 1
          /\ results' = detached
          /\ ev' = Ev("start", "call", "returned", "info")
          /\ UNCHANGED <<options, timings, inflight, now, file, html, alive, events>>

StartAlwaysResets ==
  /\ alive
  /\ listeners < MaxSessions
  /\ failures' = <<>>
  /\ showStoppers' = <<>>
  /\ requestStartTimes' = [u \in Urls |-> 0]
  /\ requestDurations' = <<>>
  /\ detailedRequestDurations' = <<>>
  /\ timings' = <<>>
  /\ isMonitoring' = TRUE
  /\ listeners' = listeners + 1
  /\ results' = detached
  /\ ev' = [Ev("start", "call", "returned", "info") EXCEPT !.running = isMonitoring]
  /\ UNCHANGED <<options, inflight, now, file, html, alive, events>>

StartKeepsShowStoppers ==
  /\ alive
  /\ IF isMonitoring
     THEN /\ ev' = [Ev("start", "call", "returned", "warn") EXCEPT !.running = TRUE]
          /\ UNCHANGED <<options, results, session, isMonitoring, listeners, inflight, now,
                         file, html, alive, events>>
     ELSE /\ listeners < MaxSessions
          /\ failures' = <<>>
          /\ requestStartTimes' = [u \in Urls |-> 0]
          /\ requestDurations' = <<>>
          /\ detailedRequestDurations' = <<>>
          /\ timings' = <<>>
          /\ isMonitoring' = TRUE
          /\ listeners' = listeners + 1
          /\ results' = detached
          /\ ev' = Ev("start", "call", "returned", "info")
          /\ UNCHANGED <<options, showStoppers, inflight, now, file, html, alive, events>>

\* start(): a warning when already Running, else every collection is
\* emptied and one more set of handlers is registered on the page.
Start ==
  /\ alive
  /\ IF isMonitoring
     THEN /\ ev' = [Ev("start", "call", "returned", "warn") EXCEPT !.running = TRUE]
          /\ UNCHANGED <<options, results, session, isMonitoring, listeners, inflight, now,
                         file, html, alive, events>>
     ELSE /\ listeners < MaxSessions
          /\ failures' = <<>>
          /\ showStoppers' = <<>>
          /\ requestStartTimes' = [u \in Urls |-> 0]
          /\ requestDurations' = <<>>
          /\ detailedRequestDurations' = <<>>
          /\ timings' = <<>>
          /\ isMonitoring' = TRUE
          /\ listeners' = listeners + 1
          /\ results' = detached
          /\ ev' = Ev("start", "call", "returned", "info")
          /\ UNCHANGED <<options, inflight, now, file, html, alive, events>>

savedReportKeepsOtherRuns ==
  LET keep == file.state = "json" /\ file.hasArray
      existing == IF keep THEN file.reportData ELSE <<>>
  IN [state |-> "json", hasArray |-> TRUE, pid |-> <<CurrentPpid>>,
      reportData |-> Append(existing, getResults)]

\* The content saveReport writes: the stored snapshots, unless the file is
\* missing, unreadable, holds no reportData array or carries another
\* testRunnerPid, followed by the current snapshot.
savedReport ==
  LET keep == /\ file.state = "json"
              /\ file.hasArray
              /\ ~(file.pid # <<>> /\ file.pid # <<CurrentPpid>>)
      existing == IF keep THEN file.reportData ELSE <<>>
  IN [state |-> "json", hasArray |-> TRUE, pid |-> <<CurrentPpid>>,
      reportData |-> Append(existing, getResults)]

\* Whether saveReport logs "Error reading existing report": only its catch
\* block does, which runs when the existing file cannot be read or parsed. A
\* parsed file without a reportData array is replaced without a log line.
saveReportLogsError == file.state = "corrupt"

IoOutcomes == {"ok", "jsonWriteFail", "htmlReadFail", "htmlWriteFail"}

\* stop(). io is what the file system does: the JSON write throws, the JSON
\* read-back in generateHTMLReport fails (process.exit(1)), the HTML write
\* throws, or everything succeeds.
StopSortsInPlace(io) ==
  /\ alive
  /\ io = "ok"
  /\ IF ~isMonitoring
     THEN /\ ev' = Ev("stop", "call", "returned", "warn")
          /\ UNCHANGED <<options, results, session, isMonitoring, listeners, inflight, now,
                         file, html, alive, events>>
     ELSE /\ Len(file.reportData) < MaxSnapshots
          /\ detailedRequestDurations' = SortDesc(detailedRequestDurations)
          /\ file' = savedReport
          /\ html' = Len(savedReport.reportData)
          /\ isMonitoring' = FALSE
          /\ ev' = [Ev("stop", "call", IF hasShowStoppers THEN "raised" ELSE "returned",
                       "info")
                    EXCEPT !.running = TRUE,
                           !.error = IF hasShowStoppers THEN <<"showstoppers">> ELSE <<>>]
          /\ UNCHANGED <<options, results, failures, showStoppers, requestStartTimes,
                         requestDurations, timings, listeners, inflight, now, alive,
                         events>>

Stop(io) ==
  /\ alive
  /\ IF ~isMonitoring
     THEN /\ io = "ok"
          /\ ev' = Ev("stop", "call", "returned", "warn")
          /\ UNCHANGED <<options, results, session, isMonitoring, listeners, inflight, now,
                         file, html, alive, events>>
     ELSE /\ Len(file.reportData) < MaxSnapshots
          /\ file' = IF io = "jsonWriteFail" THEN file ELSE savedReport
          /\ html' = IF io = "ok" THEN Len(savedReport.reportData) ELSE html
          /\ alive' = (io # "htmlReadFail")
          /\ isMonitoring' = (io # "ok")
          /\ ev' = [Ev("stop", "call",
                       CASE io = "htmlReadFail" -> "exit"
                         [] io \in {"jsonWriteFail", "htmlWriteFail"} -> "raised"
                         [] OTHER -> IF hasShowStoppers THEN "raised" ELSE "returned",
                       CASE io = "htmlReadFail" -> "error"
                         [] io = "jsonWriteFail" -> "none"
                         [] OTHER -> "info")
                    EXCEPT !.running = TRUE,
                           !.error = IF io = "ok" /\ hasShowStoppers
                                     THEN <<"showstoppers">>
                                     ELSE IF io = "ok" THEN <<>> ELSE <<"io">>]
          /\ UNCHANGED <<options, results, session, listeners, inflight, now, events>>

measuringUntilShowStopper == isMonitoring /\ ~hasShowStoppers

\* measureAction's test `if (!this.isMonitoring)`: whether the call is measured.
measuring == isMonitoring

isSlowWhenPositive(duration) == duration > 0

isSlowOrEqual(duration) == duration >= slowThreshold

\* duration > this.options.slowThreshold
isSlow(duration) == duration > slowThreshold

failedTimingWithDuration(label, duration) ==
  [label |-> label, duration |-> duration, slow |-> FALSE, failed |-> TRUE]

\* The timing the catch block pushes; the duration it computed is not used.
failedTiming(label, duration) ==
  [label |-> label, duration |-> 0, slow |-> FALSE, failed |-> TRUE]

afterCatchRethrows == "raised"

\* How the catch block ends for the caller: it awaits the screenshot when
\* captureScreenshots is on and returns; the re-throw is commented out.
afterCatch == IF captureScreenshots THEN "pending" ELSE "returned"

\* What the wrapped action does: it resolves (<<>>), or rejects with a message.
Settlements == {<<>>, <<(<<"b", NL, "s">>)>>}

MeasureActionNotMonitoringSkips(label, r) ==
  /\ alive
  /\ ~measuring
  /\ ev' = [Ev("measureAction", "call", "returned", "warn") EXCEPT !.label = label]
  /\ UNCHANGED <<options, results, session, isMonitoring, listeners, inflight, now, file,
                 html, alive, events>>

\* measureAction while not Running: a warning, then `return action()`; the
\* caller gets the action's own promise.
MeasureActionNotMonitoring(label, r) ==
  /\ alive
  /\ ~measuring
  /\ ev' = [Ev("measureAction", "call", IF r = <<>> THEN "returned" ELSE "raised", "warn")
            EXCEPT !.label = label, !.calls = 1,
                   !.error = IF r = <<>> THEN <<>> ELSE r[1]]
  /\ UNCHANGED <<options, results, session, isMonitoring, listeners, inflight, now, file,
                 html, alive, events>>

MeasureActionBeginRecordsEarly(label) ==
  /\ alive
  /\ measuring
  /\ events < MaxEvents
  /\ Len(inflight) < MaxInflight
  /\ inflight' = Append(inflight,
                        [Task("measure", "action", label, <<>>) EXCEPT !.start = now])
  /\ timings' = Append(timings, [label |-> label, duration |-> 0, slow |-> FALSE,
                                 failed |-> FALSE])
  /\ events' = events + 1
  /\ ev' = [Ev("measureAction", "call", "pending", "none")
            EXCEPT !.running = TRUE, !.label = label, !.calls = 1]
  /\ UNCHANGED <<options, results, failures, showStoppers, requestStartTimes,
                 requestDurations, detailedRequestDurations, isMonitoring, listeners, now,
                 file, html, alive>>

\* measureAction while Running, up to `await action()`.
MeasureActionBegin(label) ==
  /\ alive
  /\ measuring
  /\ events < MaxEvents
  /\ Len(inflight) < MaxInflight
  /\ inflight' = Append(inflight,
                        [Task("measure", "action", label, <<>>) EXCEPT !.start = now])
  /\ events' = events + 1
  /\ ev' = [Ev("measureAction", "call", "pending", "none")
            EXCEPT !.running = TRUE, !.label = label, !.calls = 1]
  /\ UNCHANGED <<options, results, session, isMonitoring, listeners, now, file, html, alive>>

MeasureActionResolvedInCallOrder(i) ==
  /\ alive
  /\ i \in 1..Len(inflight)
  /\ inflight[i].kind = "measure" /\ inflight[i].phase = "action"
  /\ LET duration == now - inflight[i].start
     IN /\ timings' = <<[label |-> inflight[i].label, duration |-> duration,
                         slow |-> isSlow(duration), failed |-> FALSE]>> \o timings
        /\ ev' = [Ev("measureAction", "resolved", "returned",
                     IF isSlow(duration) THEN "warn" ELSE "none")
                  EXCEPT !.running = TRUE, !.label = inflight[i].label]
  /\ inflight' = RemoveAt(inflight, i)
  /\ UNCHANGED <<options, results, failures, showStoppers, requestStartTimes, requestDurations,
                 detailedRequestDurations, isMonitoring, listeners, now, file, html,
                 alive, events>>

\* The awaited action resolves: the try block's remainder.
MeasureActionResolved(i) ==
  /\ alive
  /\ i \in 1..Len(inflight)
  /\ inflight[i].kind = "measure" /\ inflight[i].phase = "action"
  /\ LET duration == now - inflight[i].start
     IN /\ timings' = Append(timings, [label |-> inflight[i].label, duration |-> duration,
                                       slow |-> isSlow(duration), failed |-> FALSE])
        /\ ev' = [Ev("measureAction", "resolved", "returned",
                     IF isSlow(duration) THEN "warn" ELSE "none")
                  EXCEPT !.running = TRUE, !.label = inflight[i].label]
  /\ inflight' = RemoveAt(inflight, i)
  /\ UNCHANGED <<options, results, failures, showStoppers, requestStartTimes, requestDurations,
                 detailedRequestDurations, isMonitoring, listeners, now, file, html,
                 alive, events>>

\* The awaited action rejects with message msg: the catch block up to its
\* await of captureErrorScreenshot (the whole block when captureScreenshots
\* is off).
MeasureActionRejected(i, msg) ==
  /\ alive
  /\ i \in 1..Len(inflight)
  /\ inflight[i].kind = "measure" /\ inflight[i].phase = "action"
  /\ timings' = Append(timings, failedTiming(inflight[i].label, now - inflight[i].start))
  /\ showStoppers' = Append(showStoppers, [label |-> inflight[i].label,
                                           criticalError |-> cleanErrorMessage(msg)])
  /\ inflight' = IF captureScreenshots
                 THEN [inflight EXCEPT ![i].phase = "screenshot"]
                 ELSE RemoveAt(inflight, i)
  /\ ev' = [Ev("measureAction", "rejected", afterCatch, "error")
            EXCEPT !.running = TRUE, !.label = inflight[i].label, !.error = msg]
  /\ UNCHANGED <<options, results, failures, requestStartTimes, requestDurations,
                 detailedRequestDurations, isMonitoring, listeners, now, file, html,
                 alive, events>>

\* captureErrorScreenshot settles inside measureAction's catch block: its
\* result is dropped and measureAction returns.
MeasureActionScreenshotDone(i, ok) ==
  /\ alive
  /\ i \in 1..Len(inflight)
  /\ inflight[i].kind = "measure" /\ inflight[i].phase = "screenshot"
  /\ inflight' = RemoveAt(inflight, i)
  /\ ev' = [Ev("measureAction", "screenshot", "returned", IF ok THEN "none" ELSE "error")
            EXCEPT !.running = TRUE, !.label = inflight[i].label]
  /\ UNCHANGED <<options, results, session, isMonitoring, listeners, now, file, html, alive,
                 events>>

AddFailureUnguarded(error, type, metadata) ==
  /\ alive
  /\ isMonitoring => events < MaxEvents
  /\ failures' = Append(failures, metadata @@ [error |-> error, type |-> type])
  /\ events' = IF isMonitoring THEN events + 1 ELSE events
  /\ ev' = [Ev("addFailure", "call", "returned", "warn") EXCEPT !.running = isMonitoring]
  /\ UNCHANGED <<options, results, showStoppers, requestStartTimes, requestDurations,
                 detailedRequestDurations, timings, isMonitoring, listeners,
                 inflight, now, file, html, alive>>

\* addFailure(error, type, metadata): { error, type, ...metadata }.
AddFailure(error, type, metadata) ==
  /\ alive
  /\ IF ~isMonitoring
     THEN /\ ev' = Ev("addFailure", "call", "returned", "warn")
          /\ UNCHANGED <<options, results, session, isMonitoring, listeners, inflight, now,
                         file, html, alive, events>>
     ELSE /\ events < MaxEvents
          /\ failures' = Append(failures, metadata @@ [error |-> error, type |-> type])
          /\ events' = events + 1
          /\ ev' = [Ev("addFailure", "call", "returned", "warn") EXCEPT !.running = TRUE]
          /\ UNCHANGED <<options, results, showStoppers, requestStartTimes, requestDurations,
                         detailedRequestDurations, timings, isMonitoring, listeners,
                         inflight, now, file, html, alive>>

\* The path captureErrorScreenshot returns for a label.
screenshotPath(label) == <<"error_">> \o label \o <<".png">>

\* addShowStopper(label, criticalError) up to its first suspension point: the
\* isMonitoring check, then either the push (captureScreenshots off) or the
\* await of captureErrorScreenshot. t is the suspended caller (a response
\* handler) that is being continued, or <<>> for a call from the test.
addShowStopperCall(label, criticalError, op, t) ==
  LET rest == IF t = <<>> THEN inflight ELSE RemoveAt(inflight, t[1])
      origin == IF t = <<>> THEN "user" ELSE "response"
  IN IF ~isMonitoring
     THEN /\ inflight' = rest
          /\ ev' = [Ev(op, "call", "returned", "warn") EXCEPT !.label = label]
          /\ UNCHANGED showStoppers
     ELSE IF captureScreenshots
     THEN /\ inflight' = Append(rest,
               [Task("addShowStopper", "screenshot", label, criticalError)
                EXCEPT !.origin = origin])
          /\ ev' = [Ev(op, "call", "pending", "none")
                    EXCEPT !.running = TRUE, !.label = label]
          /\ UNCHANGED showStoppers
     ELSE /\ inflight' = rest
          /\ showStoppers' = Append(showStoppers,
               [label |-> label, criticalError |-> criticalError])
          /\ ev' = [Ev(op, "call", "returned", "error")
                    EXCEPT !.running = TRUE, !.label = label]

\* addShowStopper called by the test.
AddShowStopper(label, criticalError) ==
  /\ alive
  /\ isMonitoring => events < MaxEvents /\ Len(inflight) < MaxInflight
  /\ addShowStopperCall(label, criticalError, "addShowStopper", <<>>)
  /\ events' = IF isMonitoring THEN events + 1 ELSE events
  /\ UNCHANGED <<options, results, failures, requestStartTimes, requestDurations,
                 detailedRequestDurations, timings, isMonitoring, listeners, now,
                 file, html, alive>>

AddShowStopperCaptureFailureEscapes(i, ok) ==
  /\ alive
  /\ i \in 1..Len(inflight)
  /\ inflight[i].kind = "addShowStopper" /\ inflight[i].phase = "screenshot"
  /\ LET t == inflight[i]
         base == [label |-> t.label, criticalError |-> t.crit]
     IN /\ showStoppers' =
             IF ok THEN Append(showStoppers, [screenshot |-> screenshotPath(t.label)] @@ base)
             ELSE showStoppers
        /\ ev' = [Ev(IF t.origin = "user" THEN "addShowStopper" ELSE "response",
                     "screenshot", IF ok THEN "returned" ELSE "raised", "error")
                  EXCEPT !.running = TRUE, !.label = t.label]
  /\ inflight' = RemoveAt(inflight, i)
  /\ UNCHANGED <<options, results, failures, requestStartTimes, requestDurations,
                 detailedRequestDurations, timings, isMonitoring, listeners, now,
                 file, html, alive, events>>

\* captureErrorScreenshot settles inside addShowStopper: the showstopper is
\* pushed, with the path when the capture succeeded.
AddShowStopperScreenshotDone(i, ok) ==
  /\ alive
  /\ i \in 1..Len(inflight)
  /\ inflight[i].kind = "addShowStopper" /\ inflight[i].phase = "screenshot"
  /\ LET t == inflight[i]
         base == [label |-> t.label, criticalError |-> t.crit]
     IN /\ showStoppers' = Append(showStoppers,
              IF ok THEN [screenshot |-> screenshotPath(t.label)] @@ base ELSE base)
        /\ ev' = [Ev(IF t.origin = "user" THEN "addShowStopper" ELSE "response",
                     "screenshot", "returned", "error")
                  EXCEPT !.running = TRUE, !.label = t.label]
  /\ inflight' = RemoveAt(inflight, i)
  /\ UNCHANGED <<options, results, failures, requestStartTimes, requestDurations,
                 detailedRequestDurations, timings, isMonitoring, listeners, now,
                 file, html, alive, events>>

\* ------------------------------------------------------- driver events
\* Every effective start() registers one more handler per event, and none is
\* ever removed: an event runs `listeners` handlers.
OnConsoleRecordsAll(type, text) ==
  /\ alive
  /\ listeners > 0
  /\ events < MaxEvents
  /\ failures' = failures \o Repeat(<<[error |-> text, type |-> "console"]>>, listeners)
  /\ events' = events + 1
  /\ ev' = [Ev("console", "event", "returned", "none")
            EXCEPT !.running = isMonitoring, !.label = <<type>>, !.error = text]
  /\ UNCHANGED <<options, results, showStoppers, requestStartTimes, requestDurations,
                 detailedRequestDurations, timings, isMonitoring, listeners, inflight,
                 now, file, html, alive>>

\* page.on('console')
OnConsole(type, text) ==
  /\ alive
  /\ listeners > 0
  /\ events < MaxEvents
  /\ failures' = IF type = "error"
                 THEN failures \o Repeat(<<[error |-> text, type |-> "console"]>>, listeners)
                 ELSE failures
  /\ events' = IF type = "error" THEN events + 1 ELSE events
  /\ ev' = [Ev("console", "event", "returned", "none")
            EXCEPT !.running = isMonitoring, !.label = <<type>>, !.error = text]
  /\ UNCHANGED <<options, results, showStoppers, requestStartTimes, requestDurations,
                 detailedRequestDurations, timings, isMonitoring, listeners, inflight,
                 now, file, html, alive>>

\* page.on('request')
OnRequestKeepsFirstStart(url) ==
  /\ alive
  /\ listeners > 0
  /\ requestStartTimes' =
       IF requestStartTimes[url] = 0 THEN [requestStartTimes EXCEPT ![url] = now]
       ELSE requestStartTimes
  /\ ev' = [Ev("request", "event", "returned", "none") EXCEPT !.running = isMonitoring]
  /\ UNCHANGED <<options, results, failures, showStoppers, requestDurations,
                 detailedRequestDurations, timings, isMonitoring, listeners, inflight,
                 now, file, html, alive, events>>

OnRequest(url) ==
  /\ alive
  /\ listeners > 0
  /\ requestStartTimes' = [requestStartTimes EXCEPT ![url] = now]
  /\ ev' = [Ev("request", "event", "returned", "none") EXCEPT !.running = isMonitoring]
  /\ UNCHANGED <<options, results, failures, showStoppers, requestDurations,
                 detailedRequestDurations, timings, isMonitoring, listeners, inflight,
                 now, file, html, alive, events>>

\* page.on('requestfinished')
OnRequestFinished(url, method) ==
  /\ alive
  /\ listeners > 0
  /\ events < MaxEvents
  /\ LET known == requestStartTimes[url] # 0
         duration == now - requestStartTimes[url]
     IN /\ requestDurations' =
             IF known THEN requestDurations \o Repeat(<<duration>>, listeners)
             ELSE requestDurations
        /\ detailedRequestDurations' =
             IF known
             THEN detailedRequestDurations \o
                  Repeat(<<[url |-> url, duration |-> duration, method |-> method]>>,
                         listeners)
             ELSE detailedRequestDurations
        /\ events' = IF known THEN events + 1 ELSE events
  /\ ev' = [Ev("requestfinished", "event", "returned", "none")
            EXCEPT !.running = isMonitoring]
  /\ UNCHANGED <<options, results, failures, showStoppers, requestStartTimes, timings,
                 isMonitoring, listeners, inflight, now, file, html, alive>>

\* page.on('requestfailed') up to `await request.response()`, once per handler.
OnRequestFailed(url, method, errorText) ==
  /\ alive
  /\ listeners > 0
  /\ events < MaxEvents
  /\ Len(inflight) + listeners <= MaxInflight
  /\ inflight' = inflight \o
       Repeat(<<[Task("requestfailed", "response", <<>>, errorText)
                 EXCEPT !.url = url, !.method = method, !.origin = "driver"]>>,
              listeners)
  /\ events' = events + 1
  /\ ev' = [Ev("requestfailed", "event", "pending", "none")
            EXCEPT !.running = isMonitoring]
  /\ UNCHANGED <<options, results, session, isMonitoring, listeners, now, file, html, alive>>

\* The requestfailed handler after its await: the Failure is pushed.
OnRequestFailedDone(i, status) ==
  /\ alive
  /\ i \in 1..Len(inflight)
  /\ inflight[i].kind = "requestfailed"
  /\ LET t == inflight[i]
     IN failures' = Append(failures,
          [error |-> IF t.crit = <<>> THEN <<"Unknown error">> ELSE t.crit,
           requestUrl |-> t.url,
           requestStatus |-> status,
           requestMethod |-> t.method,
           type |-> "request"])
  /\ inflight' = RemoveAt(inflight, i)
  /\ ev' = [Ev("requestfailed", "response", "returned", "none")
            EXCEPT !.running = isMonitoring]
  /\ UNCHANGED <<options, results, showStoppers, requestStartTimes, requestDurations,
                 detailedRequestDurations, timings, isMonitoring, listeners, now,
                 file, html, alive, events>>

OnResponseClientErrorsToo(status, url, method) ==
  /\ alive
  /\ listeners > 0
  /\ events < MaxEvents
  /\ LET fatal == status >= 400 /\ status < 600
     IN /\ fatal => Len(inflight) + listeners <= MaxInflight
        /\ inflight' =
             IF fatal
             THEN inflight \o
                  Repeat(<<[Task("response", "body", <<method, " - ", url>>, <<>>)
                            EXCEPT !.url = url, !.method = method, !.status = status,
                                   !.origin = "driver"]>>,
                         listeners)
             ELSE inflight
        /\ events' = IF fatal THEN events + 1 ELSE events
        /\ ev' = [Ev("response", "event", IF fatal THEN "pending" ELSE "returned", "none")
                  EXCEPT !.running = isMonitoring]
  /\ UNCHANGED <<options, results, session, isMonitoring, listeners, now, file, html, alive>>

\* page.on('response') up to `await response.text()`, once per handler; a
\* status outside [500, 600) ends the handler at once.
OnResponse(status, url, method) ==
  /\ alive
  /\ listeners > 0
  /\ events < MaxEvents
  /\ LET fatal == status >= 500 /\ status < 600
     IN /\ fatal => Len(inflight) + listeners <= MaxInflight
        /\ inflight' =
             IF fatal
             THEN inflight \o
                  Repeat(<<[Task("response", "body", <<method, " - ", url>>, <<>>)
                            EXCEPT !.url = url, !.method = method, !.status = status,
                                   !.origin = "driver"]>>,
                         listeners)
             ELSE inflight
        /\ events' = IF fatal THEN events + 1 ELSE events
        /\ ev' = [Ev("response", "event", IF fatal THEN "pending" ELSE "returned", "none")
                  EXCEPT !.running = isMonitoring]
  /\ UNCHANGED <<options, results, session, isMonitoring, listeners, now, file, html, alive>>

\* response.text() settles with the body, or fails (<<>>).
BodyReads == {<<>>} \cup { <<b>> : b \in Bodies }

\* The response handler after the body read: addShowStopper is called with
\* "<METHOD> - <URL>" and "Status: <status> - Body: <first 100 chars>...".
OnResponseBodyDone(i, read) ==
  /\ alive
  /\ i \in 1..Len(inflight)
  /\ inflight[i].kind = "response" /\ inflight[i].phase = "body"
  /\ LET t == inflight[i]
         body == IF read = <<>> THEN <<"[body unreadable]">> ELSE read[1]
     IN addShowStopperCall(t.label,
          <<"Status: ", StatusText(t.status), " - Body: ">> \o Take(body, 100) \o <<"...">>,
          "response", <<i>>)
  /\ UNCHANGED <<options, results, failures, requestStartTimes, requestDurations,
                 detailedRequestDurations, timings, isMonitoring, listeners, now,
                 file, html, alive, events>>

\* Date.now() moves on.
Tick ==
  /\ alive
  /\ now < MaxTime
  /\ now' = now + 1
  /\ ev' = Ev("tick", "event", "returned", "none")
  /\ UNCHANGED <<options, results, session, isMonitoring, listeners, inflight, file, html,
                 alive, events>>

\* The monitor under every recording operation and driver event, on one
\* label, one message, one URL and a clock that does not move. getResults(),
\* which only reads, is called in SpecResults.
Next ==
  \/ Start
  \/ \E io \in IoOutcomes : Stop(io)
  \/ \E r \in Settlements : MeasureActionNotMonitoring(<<"L1">>, r)
  \/ MeasureActionBegin(<<"L1">>)
  \/ \E i \in 1..MaxInflight : MeasureActionResolved(i)
  \/ \E i \in 1..MaxInflight : MeasureActionRejected(i, <<"b", NL, "s">>)
  \/ \E i \in 1..MaxInflight, ok \in BOOLEAN : MeasureActionScreenshotDone(i, ok)
  \/ AddFailure(<<"e">>, "custom", <<>>)
  \/ AddShowStopper(<<"L2">>, <<"m">>)
  \/ \E i \in 1..MaxInflight, ok \in BOOLEAN : AddShowStopperScreenshotDone(i, ok)
  \/ \E ty \in ConsoleTypes : OnConsole(ty, <<"c">>)
  \/ OnRequest("u1")
  \/ OnRequestFinished("u1", "GET")
  \/ OnRequestFailed("u1", "GET", <<>>)
  \/ \E i \in 1..MaxInflight : OnRequestFailedDone(i, <<>>)
  \/ \E st \in {404, 499, 500, 600} : OnResponse(st, "u1", "GET")
  \/ \E i \in 1..MaxInflight, rd \in BodyReads : OnResponseBodyDone(i, rd)

Spec == Init /\ [][Next]_vars

\* measureAction on a Running session: two labels, every message, a moving
\* clock.
NextMeasure ==
  \/ Start
  \/ Stop("ok")
  \/ \E l \in Labels : MeasureActionBegin(l)
  \/ \E i \in 1..MaxInflight : MeasureActionResolved(i)
  \/ \E i \in 1..MaxInflight, m \in Messages : MeasureActionRejected(i, m)
  \/ \E i \in 1..MaxInflight, ok \in BOOLEAN : MeasureActionScreenshotDone(i, ok)
  \/ Tick

SpecMeasure == Init /\ [][NextMeasure]_vars

\* A monitor constructed with captureScreenshots off, so that every recording
\* call completes in one step or at the settlement of the measured action.
InitResults ==
  /\ slowThreshold = 1
  /\ captureScreenshots = FALSE
  /\ failures = <<>>
  /\ showStoppers = <<>>
  /\ requestStartTimes = [u \in Urls |-> 0]
  /\ requestDurations = <<>>
  /\ detailedRequestDurations = <<>>
  /\ timings = <<>>
  /\ isMonitoring = FALSE
  /\ listeners = 0
  /\ inflight = <<>>
  /\ now = 1
  /\ file = NoFile
  /\ html = 0
  /\ alive = TRUE
  /\ events = 0
  /\ ev = Ev("new", "call", "returned", "none")
  /\ results = <<>>

\* getResults() among the calls that record something, with a moving clock.
NextResults ==
  \/ Start
  \/ Stop("ok")
  \/ GetResults
  \/ MeasureActionBegin(<<"L1">>)
  \/ \E i \in 1..MaxInflight : MeasureActionResolved(i)
  \/ \E i \in 1..MaxInflight : MeasureActionRejected(i, <<"b">>)
  \/ AddFailure(<<"e">>, "custom", <<>>)
  \/ AddShowStopper(<<"L2">>, <<"m">>)
  \/ Tick

SpecResults == InitResults /\ [][NextResults]_vars

\* A monitor constructed with captureScreenshots off and any threshold.
InitNet ==
  /\ slowThreshold \in 1..MaxThreshold
  /\ captureScreenshots = FALSE
  /\ failures = <<>>
  /\ showStoppers = <<>>
  /\ requestStartTimes = [u \in Urls |-> 0]
  /\ requestDurations = <<>>
  /\ detailedRequestDurations = <<>>
  /\ timings = <<>>
  /\ isMonitoring = FALSE
  /\ listeners = 0
  /\ inflight = <<>>
  /\ now = 1
  /\ file = NoFile
  /\ html = 0
  /\ alive = TRUE
  /\ events = 0
  /\ ev = Ev("new", "call", "returned", "none")
  /\ results = <<>>

\* Request timing on two URLs next to measured actions and custom failures,
\* with a moving clock.
NextNet ==
  \/ Start
  \/ Stop("ok")
  \/ AddFailure(<<"e">>, "custom", <<>>)
  \/ \E u \in Urls : OnRequest(u)
  \/ \E u \in Urls : OnRequestFinished(u, "GET")
  \/ MeasureActionBegin(<<"L1">>)
  \/ \E i \in 1..MaxInflight : MeasureActionResolved(i)
  \/ \E i \in 1..MaxInflight : MeasureActionRejected(i, <<"b">>)
  \/ Tick

SpecNet == InitNet /\ [][NextNet]_vars

\* Request details a session can have recorded: up to MaxRequests of them.
Details == [url : Urls, duration : 1..MaxTime, method : {"GET"}]

DetailLists ==
  UNION { [1..n -> Details] : n \in 0..MaxRequests }

\* A Running first session that has recorded any list of request details.
InitSort ==
  /\ slowThreshold \in 1..MaxThreshold
  /\ captureScreenshots = FALSE
  /\ failures = <<>>
  /\ showStoppers = <<>>
  /\ requestStartTimes = [u \in Urls |-> 0]
  /\ detailedRequestDurations \in DetailLists
  /\ requestDurations = Durations(detailedRequestDurations)
  /\ timings = <<>>
  /\ isMonitoring = TRUE
  /\ listeners = 1
  /\ inflight = <<>>
  /\ now = 1
  /\ file = NoFile
  /\ html = 0
  /\ alive = TRUE
  /\ events = MaxEvents
  /\ ev = Ev("start", "call", "returned", "info")
  /\ results = <<>>

\* The report of such a session is computed and stored.
NextSort ==
  \/ GetResults
  \/ Stop("ok")

SpecSort == InitSort /\ [][NextSort]_vars

\* A snapshot an earlier stop() left in the report file.
OldSnapshot ==
  [timestamp |-> 0, passed |-> TRUE, showStoppers |-> <<>>, slowThreshold |-> 1,
   pageLoadSteps |-> <<>>, avgLoadTime |-> <<>>, avgRequestTime |-> <<>>,
   slowRequests |-> <<>>, failures |-> <<>>]

\* What options.outputFile can hold when the monitor is constructed: nothing,
\* a collection of this run, of another run (testRunnerPid differs) or of no
\* known run, JSON without a reportData array, or text that does not parse.
StoredFiles ==
  { NoFile,
    [state |-> "json", hasArray |-> TRUE, pid |-> <<CurrentPpid>>,
     reportData |-> <<OldSnapshot>>],
    [state |-> "json", hasArray |-> TRUE, pid |-> <<"p0">>,
     reportData |-> <<OldSnapshot>>],
    [state |-> "json", hasArray |-> TRUE, pid |-> <<>>,
     reportData |-> <<OldSnapshot>>],
    [state |-> "json", hasArray |-> FALSE, pid |-> <<>>, reportData |-> <<>>],
    [state |-> "corrupt", hasArray |-> FALSE, pid |-> <<>>, reportData |-> <<>>] }

InitReport ==
  /\ slowThreshold \in 1..MaxThreshold
  /\ captureScreenshots \in BOOLEAN
  /\ failures = <<>>
  /\ showStoppers = <<>>
  /\ requestStartTimes = [u \in Urls |-> 0]
  /\ requestDurations = <<>>
  /\ detailedRequestDurations = <<>>
  /\ timings = <<>>
  /\ isMonitoring = FALSE
  /\ listeners = 0
  /\ inflight = <<>>
  /\ now = 1
  /\ file \in StoredFiles
  /\ html = 0
  /\ alive = TRUE
  /\ events = 0
  /\ ev = Ev("new", "call", "returned", "none")
  /\ results = <<>>

\* Sessions that record showstoppers and failures and are stopped, over every
\* content of the report file and everything the file system does.
NextReport ==
  \/ Start
  \/ \E io \in IoOutcomes : Stop(io)
  \/ AddFailure(<<"e">>, "custom", <<>>)
  \/ AddShowStopper(<<"L2">>, <<"m">>)
  \/ \E i \in 1..MaxInflight, ok \in BOOLEAN : AddShowStopperScreenshotDone(i, ok)

SpecReport == InitReport /\ [][NextReport]_vars

\* The label argument of the measureAction calls of a caller that numbers its
\* calls: the n-th call of the run is labelled with n letters.
callLabel == Repeat(<<"L">>, events + 1)

\* One session in which measured actions are called one after another, may
\* overlap and settle in any order.
NextOrder ==
  \/ Start
  \/ MeasureActionBegin(callLabel)
  \/ \E i \in 1..MaxInflight : MeasureActionResolved(i)
  \/ \E i \in 1..MaxInflight : MeasureActionRejected(i, <<"b">>)
  \/ \E i \in 1..MaxInflight, ok \in BOOLEAN : MeasureActionScreenshotDone(i, ok)
  \/ Tick

SpecOrder == Init /\ [][NextOrder]_vars

\* A wrapped action, or a screenshot capture, that can settle does settle.
Settles ==
  \/ \E i \in 1..MaxInflight : MeasureActionResolved(i)
  \/ \E i \in 1..MaxInflight : MeasureActionRejected(i, <<"b">>)
  \/ \E i \in 1..MaxInflight, ok \in BOOLEAN : MeasureActionScreenshotDone(i, ok)

SpecOrderLive == SpecOrder /\ WF_vars(Settles)

\* The metadata argument of addFailure: absent, an extra field, or fields
\* named like the two fixed ones.
Metadata ==
  {<<>>, [requestUrl |-> "u1"], [error |-> <<"m">>], [type |-> "console"]}

\* Custom failures with metadata, next to console errors.
NextFailure ==
  \/ Start
  \/ Stop("ok")
  \/ \E md \in Metadata : AddFailure(<<"e">>, "custom", md)
  \/ \E ty \in ConsoleTypes : OnConsole(ty, <<"c">>)

SpecFailure == Init /\ [][NextFailure]_vars

\* ------------------------------------------------------------------ claims
Last(s) == s[Len(s)]
IsPrefix(s, t) == Len(s) <= Len(t) /\ SubSeq(t, 1, Len(s)) = s

\* C1: in every reachable state the report's passed flag is true exactly
\* when the showstopper collection is empty, and hasShowStoppers() is its
\* negation.
C1_PassedIffNoShowStoppers ==
  /\ getResults.passed <=> (showStoppers = <<>>)
  /\ hasShowStoppers <=> ~getResults.passed

\* A Stopped session that recorded a showstopper: the report says failed.
C1_Witness ==
  /\ ~isMonitoring
  /\ listeners > 0
  /\ showStoppers # <<>>
  /\ ~getResults.passed

\* C2: a stop() call made on a Running session raises exactly when a
\* showstopper has been recorded.
C2_StopRaisesIffShowStoppers ==
  (ev.op = "stop" /\ ev.running) => ((ev.outcome = "raised") <=> (showStoppers # <<>>))

\* C3: when the action of a measured call rejects, exactly the timing
\* {label, 0, not slow, failed} and one showstopper with the call's label are
\* appended, and the call ends without raising (after the screenshot, when
\* one is taken, which appends nothing).
C3_RejectedActionRecorded ==
  [][ /\ (ev'.op = "measureAction" /\ ev'.phase = "rejected") =>
           /\ \E i \in 1..Len(inflight) :
                /\ inflight[i].kind = "measure"
                /\ inflight[i].phase = "action"
                /\ inflight[i].label = ev'.label
           /\ timings' = Append(timings, [label |-> ev'.label, duration |-> 0,
                                          slow |-> FALSE, failed |-> TRUE])
           /\ Len(showStoppers') = Len(showStoppers) + 1
           /\ IsPrefix(showStoppers, showStoppers')
           /\ Last(showStoppers').label = ev'.label
           /\ ev'.outcome \in {"pending", "returned"}
      /\ (ev'.op = "measureAction" /\ ev'.phase = "screenshot") =>
           /\ ev'.outcome = "returned"
           /\ UNCHANGED collections ]_vars

\* The second of two measured actions rejected after the clock had moved and
\* left its failed timing and its showstopper.
C3_Witness ==
  /\ ev.op = "measureAction"
  /\ ev.phase = "rejected"
  /\ ev.outcome = "returned"
  /\ now > 1
  /\ Len(timings) = 2
  /\ Last(timings).failed
  /\ Last(showStoppers).label = ev.label

\* C4 as stated: no measureAction call, in any lifecycle state, propagates
\* its action's rejection; only stop() raises.
C4_NeverPropagates ==
  /\ ev.op = "measureAction" => ev.outcome # "raised"
  /\ ev.outcome = "raised" => ev.op = "stop"

\* C4 amended: a measureAction call made while Running never raises; a call
\* made while not Running hands the action's rejection to the caller; nothing
\* but stop() and that pass-through raises.
C4_OnlyMeasuredCallsSwallow ==
  /\ (ev.op = "measureAction" /\ ev.running) => ev.outcome # "raised"
  /\ (ev.op = "measureAction" /\ ~ev.running) =>
       ((ev.outcome = "raised") <=> (ev.error # <<>>))
  /\ ev.outcome = "raised" =>
       \/ ev.op = "stop"
       \/ ev.op = "measureAction" /\ ~ev.running

\* A measured call whose action rejected has returned to its caller.
C4_Witness ==
  /\ ev.op = "measureAction"
  /\ ev.running
  /\ ev.phase = "rejected"
  /\ ev.error # <<>>
  /\ ev.outcome = "returned"

\* C5: a step that records a showstopper leaves the lifecycle state as it is
\* and raises nothing; a measureAction call made on a Running session that
\* already has showstoppers still runs its action, and every measured action
\* that settles appends its timing.
C5_ShowStopperDoesNotStopSession ==
  [][ /\ Len(showStoppers') > Len(showStoppers) =>
           /\ isMonitoring' = isMonitoring
           /\ alive'
           /\ ev'.outcome \in {"pending", "returned"}
      /\ (isMonitoring /\ showStoppers # <<>> /\ ev'.op = "measureAction"
            /\ ev'.phase = "call") =>
           /\ ev'.calls = 1
           /\ ev'.outcome = "pending"
           /\ Len(inflight') = Len(inflight) + 1
           /\ Last(inflight').kind = "measure"
      /\ (ev'.op = "measureAction" /\ ev'.phase \in {"resolved", "rejected"}) =>
           Len(timings') = Len(timings) + 1 ]_vars

\* A measured action has settled in a Running session that held a
\* showstopper from addShowStopper before the call.
C5_Witness ==
  /\ isMonitoring
  /\ ev.op = "measureAction"
  /\ ev.phase = "resolved"
  /\ Len(showStoppers) = 1
  /\ showStoppers[1].label = <<"L2">>
  /\ Len(timings) = 1

\* C6: the criticalError of the showstopper of a rejected action is the
\* first line of the error message with the colour escape sequences removed.
C6_CriticalErrorIsFirstLine ==
  (ev.op = "measureAction" /\ ev.phase = "rejected") =>
    Last(showStoppers).criticalError = FirstLine(StripAnsi(ev.error))

\* C7: when the action of a measured call resolves after D, exactly the
\* timing {label, D, slow = (D > slowThreshold), not failed} is appended and
\* no showstopper is added.
C7_ResolvedActionTimed ==
  [][ (ev'.op = "measureAction" /\ ev'.phase = "resolved") =>
        /\ \E i \in 1..Len(inflight) :
             /\ inflight[i].kind = "measure"
             /\ inflight[i].phase = "action"
             /\ timings' = Append(timings,
                  [label |-> inflight[i].label,
                   duration |-> now - inflight[i].start,
                   slow |-> (now - inflight[i].start > slowThreshold),
                   failed |-> FALSE])
        /\ showStoppers' = showStoppers
        /\ ev'.outcome = "returned" ]_vars

\* One action took exactly the threshold and is not slow, another took
\* longer and is slow.
C7_Witness ==
  /\ Len(timings) = 2
  /\ \E i, j \in 1..2 :
       /\ timings[i].duration = slowThreshold
       /\ ~timings[i].slow
       /\ timings[j].duration > slowThreshold
       /\ timings[j].slow
       /\ ~timings[i].failed /\ ~timings[j].failed
  /\ showStoppers = <<>>

\* C8: a measureAction call made while not Running invokes its action
\* exactly once and changes no collection.
C8_PassThroughRunsActionOnce ==
  [][ (~isMonitoring /\ ev'.op = "measureAction" /\ ev'.phase = "call") =>
        /\ ev'.calls = 1
        /\ ~ev'.running
        /\ UNCHANGED <<session, inflight>> ]_vars

\* A pass-through call after stop(), on a session that holds a timing.
C8_Witness ==
  /\ ~isMonitoring
  /\ listeners > 0
  /\ ev.op = "measureAction"
  /\ ev.calls = 1
  /\ ev.outcome = "returned"
  /\ timings # <<>>

\* C9: addFailure, addShowStopper and stop called while not Running log a
\* warning, return, and change neither the lifecycle state, nor a collection,
\* nor the stored report.
C9_NoOpsWhenNotRunning ==
  [][ (~isMonitoring /\ ev'.op \in {"addFailure", "addShowStopper", "stop"}
         /\ ev'.phase = "call") =>
        /\ ev'.outcome = "returned"
        /\ ev'.log = "warn"
        /\ UNCHANGED <<session, isMonitoring, listeners, inflight, file, html,
                       alive>> ]_vars

\* A second stop() on a Stopped session that holds a showstopper has
\* returned, and the file holds the one snapshot of the first.
C9_Witness ==
  /\ ev.op = "stop"
  /\ ~ev.running
  /\ ev.outcome = "returned"
  /\ showStoppers # <<>>
  /\ Len(file.reportData) = 1
  /\ listeners = 1

\* C10: while the session is Stopped no collection changes.
C10_FrozenOnceStopped ==
  [][ (~isMonitoring /\ ~isMonitoring') => UNCHANGED collections ]_vars

\* C11: start() called on a Running session logs a warning and returns; it
\* changes no collection and no request start instant, leaves the session
\* Running and registers no handler.
C11_StartWhileRunningIsNoOp ==
  [][ (isMonitoring /\ ev'.op = "start") =>
        /\ ev'.log = "warn"
        /\ ev'.outcome = "returned"
        /\ isMonitoring'
        /\ UNCHANGED <<session, listeners, inflight, file, html>> ]_vars

\* A second start() has returned on a Running session that still holds the
\* showstopper and the failure recorded before it.
C11_Witness ==
  /\ ev.op = "start"
  /\ ev.running
  /\ isMonitoring
  /\ listeners = 1
  /\ showStoppers # <<>>
  /\ failures # <<>>

\* C12: right after a start() made on a session that was not Running, the
\* session is Running, every collection and the request start instants are
\* empty, hasShowStoppers() is false and getResults() reports passed with
\* empty lists.
C12_StartClearsSession ==
  (ev.op = "start" /\ ~ev.running) =>
    /\ isMonitoring
    /\ failures = <<>>
    /\ showStoppers = <<>>
    /\ \A u \in Urls : requestStartTimes[u] = 0
    /\ requestDurations = <<>>
    /\ detailedRequestDurations = <<>>
    /\ timings = <<>>
    /\ ~hasShowStoppers
    /\ getResults.passed
    /\ getResults.showStoppers = <<>>
    /\ getResults.pageLoadSteps = <<>>
    /\ getResults.failures = <<>>
    /\ getResults.slowRequests = <<>>

\* The second session has just started, after a first one whose stored
\* snapshot holds a showstopper.
C12_Witness ==
  /\ ev.op = "start"
  /\ ~ev.running
  /\ listeners = 2
  /\ file.reportData # <<>>
  /\ file.reportData[1].showStoppers # <<>>
  /\ showStoppers = <<>>

\* C13: the stop() that takes a session from Running to Stopped leaves the
\* stored collection with exactly one more snapshot, the session's report,
\* after the stored snapshots it kept; a stop() that follows a stop() with no
\* start() in between, or is made on a session that is not Running, logs a
\* warning, returns, and changes neither the report file nor the HTML report.
C13_OneSnapshotPerStop ==
  [][ /\ (isMonitoring /\ ~isMonitoring') =>
           /\ ev'.op = "stop"
           /\ file'.state = "json"
           /\ \/ file'.reportData = Append(file.reportData, getResults)
              \/ file'.reportData = <<getResults>>
      /\ (ev'.op = "stop" /\ (~isMonitoring \/ ev.op = "stop")) =>
           /\ ev'.outcome = "returned"
           /\ ev'.log = "warn"
           /\ ~isMonitoring'
           /\ UNCHANGED <<file, html>> ]_vars

\* C14: in a Running session one response event with a status in [500, 600)
\* appends exactly one showstopper, labelled "<METHOD> - <URL>" and with the
\* status code in its criticalError: the event starts one handler, and each
\* showstopper appended on behalf of a response has that label and text.
C14_OneShowStopperPerServerError ==
  [][ /\ (isMonitoring /\ ev'.op = "response" /\ ev'.phase = "event"
            /\ ev'.outcome = "pending") =>
           Len(inflight') = Len(inflight) + 1
      /\ (ev'.op = "response" /\ Len(showStoppers') > Len(showStoppers)) =>
           /\ Len(showStoppers') = Len(showStoppers) + 1
           /\ Last(showStoppers').label = <<"GET", " - ", "u1">>
           /\ \E k \in 1..Len(Last(showStoppers').criticalError) :
                Last(showStoppers').criticalError[k] = "500" ]_vars

\* C15: every response with a status in [500, 600) that arrived while the
\* session was Running has its showstopper in that session when the session
\* is stopped, so no handler of such a response is still suspended (at the
\* body read or at the screenshot) when the stop() of the first session has
\* run; and no step of a response handler raises.
C15_ServerErrorAlwaysRecorded ==
  /\ (ev.op = "stop" /\ ev.running /\ ~isMonitoring /\ listeners = 1) =>
       \A i \in 1..Len(inflight) :
         /\ inflight[i].kind # "response"
         /\ ~(inflight[i].kind = "addShowStopper" /\ inflight[i].origin = "response")
  /\ ev.op = "response" => ev.outcome # "raised"

\* C16: a step that adds to the showstoppers adds one, and it is a step of an
\* addShowStopper call, the catch block of a measured action, or the handler
\* of a response whose status is in [500, 600); a response with any other
\* status suspends no handler, and no console, request, requestfinished,
\* requestfailed or addFailure step adds a showstopper.
C16_ShowStopperSources ==
  [][ /\ Len(showStoppers') > Len(showStoppers) =>
           /\ Len(showStoppers') = Len(showStoppers) + 1
           /\ IsPrefix(showStoppers, showStoppers')
           /\ \/ ev'.op = "addShowStopper"
              \/ ev'.op = "measureAction" /\ ev'.phase = "rejected"
              \/ /\ ev'.op = "response"
                 /\ \E i \in 1..Len(inflight) :
                      \/ /\ inflight[i].kind = "response"
                         /\ inflight[i].status >= 500
                         /\ inflight[i].status < 600
                      \/ /\ inflight[i].kind = "addShowStopper"
                         /\ inflight[i].origin = "response"
      /\ \A i \in 1..Len(inflight') :
           inflight'[i].kind = "response" =>
             (inflight'[i].status >= 500 /\ inflight'[i].status < 600)
      /\ ev'.op \in {"console", "request", "requestfinished", "requestfailed",
                     "addFailure"} => showStoppers' = showStoppers ]_vars

\* A response handler has recorded its showstopper in a session that also
\* holds a failure.
C16_Witness ==
  /\ ev.op = "response"
  /\ ev.phase \in {"call", "screenshot"}
  /\ Len(showStoppers) = 1
  /\ showStoppers[1].label = <<"GET", " - ", "u1">>
  /\ failures # <<>>

\* C17: with no showstopper recorded getResults() reports passed and a stop()
\* made on the Running session returns without raising, however many failures
\* were recorded; and a step that records a failure changes neither the
\* showstoppers nor the lifecycle state.
C17_FailuresNeverAffectOutcome ==
  /\ [](showStoppers = <<>> =>
          /\ getResults.passed
          /\ (ev.op = "stop" /\ ev.running) => ev.outcome = "returned")
  /\ [][ Len(failures') > Len(failures) =>
           /\ showStoppers' = showStoppers
           /\ isMonitoring' = isMonitoring ]_vars

\* The session holds what it held when the newest kept report was returned:
\* nothing was appended or cleared since that getResults() call.
unchangedSinceReport ==
  /\ results # <<>>
  /\ results[1].live
  /\ results[1].report.showStoppers = showStoppers
  /\ results[1].report.pageLoadSteps = timings
  /\ results[1].report.failures = failures

C19_ReportIsImmutableSnapshot ==
  \A k \in 1..Len(results) :
    /\ heldReport(k) = results[k].report
    /\ heldReport(k).passed <=> (heldReport(k).showStoppers = <<>>)

\* C20: a getResults() call returns in every lifecycle state; the report of a
\* call made before the first start() is empty: passed, no showstoppers, no
\* page load steps, no failures, no slow requests, and both averages null.
C20_GetResultsAlwaysReturns ==
  ev.op = "getResults" =>
    /\ ev.outcome = "returned"
    /\ results # <<>>
    /\ listeners = 0 =>
         /\ results[1].report.passed
         /\ results[1].report.showStoppers = <<>>
         /\ results[1].report.pageLoadSteps = <<>>
         /\ results[1].report.failures = <<>>
         /\ results[1].report.slowRequests = <<>>
         /\ results[1].report.avgLoadTime = <<>>
         /\ results[1].report.avgRequestTime = <<>>

\* getResults() was called before the first start() and again after it: the
\* older report is the empty one.
C20_Witness ==
  /\ ev.op = "getResults"
  /\ listeners = 1
  /\ Len(results) = 2
  /\ results[2].report.passed
  /\ results[2].report.avgLoadTime = <<>>
  /\ results[2].report.avgRequestTime = <<>>
  /\ ~results[2].live
  /\ ~results[1].report.passed

\* The sum of s[i] over the indices i in I.
RECURSIVE SumAt(_, _)
SumAt(s, I) ==
  IF I = {} THEN 0
  ELSE LET i == CHOOSE j \in I : TRUE IN s[i] + SumAt(s, I \ {i})

\* avg is what the report gives for the mean of s over the indices in I: null
\* for no index, else the mean rounded to two decimals, in hundredths.
IsAverageOf(avg, s, I) ==
  IF I = {} THEN avg = <<>>
  ELSE /\ Len(avg) = 1
       /\ 2 * (avg[1] * Cardinality(I) - 100 * SumAt(s, I)) <= Cardinality(I)
       /\ 2 * (100 * SumAt(s, I) - avg[1] * Cardinality(I)) <= Cardinality(I)

\* C21: avgLoadTime is the mean of the durations of the timings that did not
\* fail and is null exactly when there is none; avgRequestTime is the mean of
\* the recorded request durations and is null exactly when there is none.
C21_AveragesOverNonFailed ==
  /\ IsAverageOf(getResults.avgLoadTime, [i \in 1..Len(timings) |-> timings[i].duration],
                 {i \in 1..Len(timings) : ~timings[i].failed})
  /\ IsAverageOf(getResults.avgRequestTime, requestDurations, 1..Len(requestDurations))

\* A failed timing next to a timing of duration 2: the average is 2.00, not
\* 1.00, and no request was timed.
C21_Witness ==
  /\ Len(timings) = 2
  /\ timings[1].failed
  /\ ~timings[2].failed
  /\ timings[2].duration = 2
  /\ getResults.avgLoadTime = <<200>>
  /\ getResults.avgRequestTime = <<>>

\* C22: slowRequests holds exactly the recorded request details with a
\* duration above slowThreshold, by descending duration, those of equal
\* duration in the order they were recorded: there is a one-to-one map f from
\* its positions onto the positions of those details that gives each entry's
\* detail and goes up wherever the duration does not go down.
C22_SlowRequestsFilteredSorted ==
  LET slow == getResults.slowRequests
      all == detailedRequestDurations
      above == {j \in 1..Len(all) : all[j].duration > slowThreshold}
  IN /\ Len(slow) = Cardinality(above)
     /\ \A i \in 1..Len(slow) - 1 : slow[i].duration >= slow[i + 1].duration
     /\ \E f \in [1..Len(slow) -> above] :
          /\ \A i \in 1..Len(slow) : slow[i] = all[f[i]]
          /\ \A i, j \in 1..Len(slow) :
               (i < j /\ slow[i].duration = slow[j].duration) => f[i] < f[j]
          /\ \A i, j \in 1..Len(slow) : i # j => f[i] # f[j]

\* Durations 2, 3, 2 were recorded under threshold 1: the report lists 3
\* first, then the two of duration 2 as recorded.
C22_Witness ==
  /\ ev.op = "getResults"
  /\ slowThreshold = 1
  /\ Len(detailedRequestDurations) = 3
  /\ detailedRequestDurations[1] = [url |-> "u1", duration |-> 2, method |-> "GET"]
  /\ detailedRequestDurations[2] = [url |-> "u1", duration |-> 3, method |-> "GET"]
  /\ detailedRequestDurations[3] = [url |-> "u2", duration |-> 2, method |-> "GET"]
  /\ heldReport(1).slowRequests =
       <<detailedRequestDurations[2], detailedRequestDurations[1],
         detailedRequestDurations[3]>>

\* C23: a call that was waiting for a screenshot returns whether or not the
\* capture succeeded. In addShowStopper the showstopper of the call is then
\* appended, with the screenshot path or without one, and an error is logged;
\* in measureAction the showstopper was recorded before the capture, which
\* takes nothing away and appends nothing. With captureScreenshots off no call waits for a
\* screenshot.
C23_CaptureFailureNeverEscapes ==
  [][ /\ (ev'.phase = "screenshot" /\ ev'.op \in {"addShowStopper", "response"}) =>
           /\ ev'.outcome = "returned"
           /\ ev'.log = "error"
           /\ \E i \in 1..Len(inflight) :
                /\ inflight[i].kind = "addShowStopper"
                /\ inflight[i].label = ev'.label
                /\ LET base == [label |-> inflight[i].label,
                                criticalError |-> inflight[i].crit]
                   IN \/ showStoppers' = Append(showStoppers, base)
                      \/ showStoppers' = Append(showStoppers,
                           [screenshot |-> screenshotPath(inflight[i].label)] @@ base)
      /\ (ev'.phase = "screenshot" /\ ev'.op = "measureAction") =>
           /\ ev'.outcome = "returned"
           /\ UNCHANGED collections
      /\ ~captureScreenshots =>
           \A i \in 1..Len(inflight') : inflight'[i].phase # "screenshot" ]_vars

\* An addShowStopper call has returned after a failed capture, and a measured
\* action has failed next to it: both showstoppers are recorded, the first
\* without a screenshot path.
C23_Witness ==
  /\ captureScreenshots
  /\ ev.phase = "screenshot"
  /\ ev.outcome = "returned"
  /\ Len(showStoppers) = 2
  /\ \E k \in 1..2 :
       /\ showStoppers[k].label = <<"L2">>
       /\ DOMAIN showStoppers[k] = {"label", "criticalError"}
  /\ \E k \in 1..2 : showStoppers[k].label = <<"L1">>
  /\ inflight = <<>>

\* C24: whenever the report file is written it carries the current parent
\* process id and ends with the current snapshot; over a stored collection of
\* the same parent process the stored snapshots are kept in front of it, over
\* one of another parent process the file holds the new snapshot alone.
C24_SnapshotAppendedPerRun ==
  [][ file' # file =>
        /\ file'.state = "json"
        /\ file'.pid = <<CurrentPpid>>
        /\ Last(file'.reportData) = getResults
        /\ (file.state = "json" /\ file.hasArray /\ file.pid = <<CurrentPpid>>) =>
             file'.reportData = Append(file.reportData, getResults)
        /\ (file.state = "json" /\ file.pid # <<>> /\ file.pid # <<CurrentPpid>>) =>
             file'.reportData = <<getResults>> ]_vars

\* A stored snapshot is kept in front of the snapshot of this session, which
\* recorded a showstopper.
C24_Witness ==
  /\ ev.op = "stop"
  /\ ev.running
  /\ file.pid = <<CurrentPpid>>
  /\ Len(file.reportData) = 2
  /\ file.reportData[1] = OldSnapshot
  /\ file.reportData[2].showStoppers # <<>>
  /\ html = 2

\* C25: when stop() runs on a Running session while the report file cannot be
\* read or parsed, or holds no snapshot array, saveReport logs an error and
\* the file then holds exactly the new snapshot, and stop() completes: the
\* session is Stopped, the process lives and nothing but the showstopper
\* check raises.
C25_UnreadableReportStartsAfresh ==
  [][ (isMonitoring /\ ev'.op = "stop"
         /\ (file.state = "corrupt" \/ (file.state = "json" /\ ~file.hasArray))) =>
        /\ saveReportLogsError
        /\ file' = [state |-> "json", hasArray |-> TRUE, pid |-> <<CurrentPpid>>,
                    reportData |-> <<getResults>>]
        /\ ev'.error # <<"io">>
        /\ alive'
        /\ ~isMonitoring' ]_vars

\* C26: a stop() during which the JSON report cannot be read back for the
\* HTML report (an error is logged, no HTML is written) still ends with the
\* session Stopped and the process alive, and raises exactly when a
\* showstopper was recorded.
C26_HtmlReadFailureNotFatal ==
  /\ alive
  /\ (ev.op = "stop" /\ ev.running /\ ev.log = "error") =>
       /\ ~isMonitoring
       /\ (ev.outcome = "raised") <=> (showStoppers # <<>>)

\* C27: in every step other than an effective start(), the previous content
\* of each session collection (timings, failures, showstoppers, request
\* durations, request details) is a prefix of its new content: entries are
\* only appended, never removed, reordered or modified, also when stop() or
\* getResults() sorts the slow requests.
C27_CollectionsGrowByAppends ==
  [][~(ev'.op = "start" /\ ~ev'.running) =>
       /\ IsPrefix(timings, timings')
       /\ IsPrefix(failures, failures')
       /\ IsPrefix(showStoppers, showStoppers')
       /\ IsPrefix(requestDurations, requestDurations')
       /\ IsPrefix(detailedRequestDurations, detailedRequestDurations')]_vars

\* stop() has just built its report from two request details recorded in
\* ascending order of duration, the later one slow: the report lists the slow
\* one first and the session still holds them as recorded.
C27_Witness ==
  /\ ev.op = "stop"
  /\ ev.running
  /\ Len(detailedRequestDurations) = 2
  /\ detailedRequestDurations[1].duration < detailedRequestDurations[2].duration
  /\ detailedRequestDurations[2].duration > slowThreshold
  /\ getResults.slowRequests[1] = detailedRequestDurations[2]

\* C28: within a Running session that is not stopped, whatever the order in
\* which driver events, suspended addShowStopper calls and a measured action
\* take their steps, no append is lost or duplicated: a step adds at most one
\* record to each collection and suspends at most one handler, a recording
\* call or event leaves a record or a suspended handler, and a handler or
\* call that completes leaves exactly one record in its collection.
C28_NoAppendLostOrDuplicated ==
  [][(isMonitoring /\ isMonitoring') =>
       /\ Len(failures') <= Len(failures) + 1
       /\ Len(showStoppers') <= Len(showStoppers) + 1
       /\ Len(timings') <= Len(timings) + 1
       /\ Len(requestDurations') <= Len(requestDurations) + 1
       /\ Len(detailedRequestDurations') <= Len(detailedRequestDurations) + 1
       /\ Len(inflight') <= Len(inflight) + 1
       /\ (events' = events + 1) =>
            \/ Len(inflight') = Len(inflight) + 1
            \/ Len(failures') = Len(failures) + 1
            \/ Len(showStoppers') = Len(showStoppers) + 1
            \/ Len(detailedRequestDurations') = Len(detailedRequestDurations) + 1
       /\ (Len(inflight') < Len(inflight) /\ ev'.op \in {"addShowStopper", "response"}) =>
            Len(showStoppers') = Len(showStoppers) + 1
       /\ (Len(inflight') < Len(inflight) /\ ev'.op = "requestfailed") =>
            Len(failures') = Len(failures) + 1
       /\ (ev'.op = "measureAction" /\ ev'.phase \in {"resolved", "rejected"}) =>
            Len(timings') = Len(timings) + 1
       /\ (ev'.op = "measureAction" /\ ev'.phase = "rejected") =>
            Len(showStoppers') = Len(showStoppers) + 1]_vars

\* C29: a request-finished event for a URL appends a request detail only if
\* a request-started event for that URL was observed in the current session
\* and no earlier request-finished event has used it. With the one URL of
\* Spec: a request-finished event appends only when a start instant is held,
\* one that directly follows another request-finished event appends nothing,
\* and one with no start instant changes no collection and raises nothing.
C29_OneDetailPerMatchedStart ==
  [][(ev'.op = "requestfinished") =>
       /\ ev'.outcome = "returned"
       /\ (detailedRequestDurations' # detailedRequestDurations) =>
            requestStartTimes["u1"] # 0
       /\ (ev.op = "requestfinished") =>
            UNCHANGED <<requestDurations, detailedRequestDurations>>
       /\ (requestStartTimes["u1"] = 0) => UNCHANGED session]_vars

\* C30: the raw request-duration list and the request-detail list always
\* have the same length and hold the same durations in the same order, and no
\* recorded duration is negative; a request-started event puts the current
\* instant in place of any start instant held for its URL, and every detail a
\* request-finished event appends has as duration the current instant minus
\* the start instant held for its URL.
C30_DurationListsAgree ==
  /\ [](/\ Durations(detailedRequestDurations) = requestDurations
        /\ \A i \in 1..Len(requestDurations) : requestDurations[i] >= 0)
  /\ [][/\ (ev'.op = "request") =>
             \E u \in Urls : requestStartTimes' = [requestStartTimes EXCEPT ![u] = now]
        /\ (ev'.op = "requestfinished") =>
             \A i \in (Len(detailedRequestDurations) + 1)..Len(detailedRequestDurations') :
               /\ requestStartTimes[detailedRequestDurations'[i].url] # 0
               /\ detailedRequestDurations'[i].duration =
                    now - requestStartTimes[detailedRequestDurations'[i].url]]_vars

\* A request that started at instant 2, after the clock had moved on from the
\* first instant, finished at instant 3 and was recorded with duration 1 in
\* both lists.
C30_Witness ==
  /\ ev.op = "requestfinished"
  /\ now = 3
  /\ detailedRequestDurations # <<>>
  /\ requestStartTimes[Last(detailedRequestDurations).url] = 2
  /\ Last(detailedRequestDurations).duration = 1
  /\ Last(requestDurations) = 1

\* C31: in every reachable state every timing of the session with failed set
\* has duration 0 and is not slow, no timing is both slow and failed, and
\* every timing marked slow has a duration above slowThreshold.
C31_TimingFlagsConsistent ==
  \A i \in 1..Len(timings) :
    /\ timings[i].failed => (timings[i].duration = 0 /\ ~timings[i].slow)
    /\ ~(timings[i].slow /\ timings[i].failed)
    /\ timings[i].slow => timings[i].duration > slowThreshold

\* A session holding a failed timing, rejected two instants after its call,
\* next to a timing that is not slow although it took as long as the
\* threshold.
C31_Witness ==
  /\ Len(timings) = 2
  /\ timings[1].failed
  /\ now = 3
  /\ ev.op = "measureAction"
  /\ ~timings[2].failed
  /\ ~timings[2].slow
  /\ timings[2].duration = slowThreshold

\* C32: in every reachable state the session holds at most as many failed
\* timings as showstoppers; whenever some timing is failed, hasShowStoppers()
\* is true and the report's passed flag is false.
C32_FailedTimingsHaveShowStoppers ==
  /\ Cardinality({i \in 1..Len(timings) : timings[i].failed}) <= Len(showStoppers)
  /\ (\E i \in 1..Len(timings) : timings[i].failed) =>
       (hasShowStoppers /\ ~getResults.passed)

\* A second session in which a measured action that was called in the first
\* one has just rejected: its failed timing and its showstopper are the only
\* records.
C32_Witness ==
  /\ listeners = 2
  /\ isMonitoring
  /\ ev.op = "measureAction"
  /\ ev.phase = "rejected"
  /\ Len(timings) = 1
  /\ timings[1].failed
  /\ Len(showStoppers) = 1
  /\ showStoppers[1].label = timings[1].label
  /\ ~getResults.passed

\* C33: pageLoadSteps lists the timings in the order in which the
\* measureAction calls were made: with the n-th call labelled with n letters,
\* the timing of an earlier call never stands after the timing of a later one.
C33_TimingsInCallOrder ==
  /\ getResults.pageLoadSteps = timings
  /\ \A i, j \in 1..Len(timings) :
       Len(timings[j].label) < Len(timings[i].label) => j < i

\* C33, as the code has it: pageLoadSteps lists the timings in the order in
\* which the measured actions settled. Each settlement puts the timing of its
\* own call at the end of the list, behind every timing recorded before, and
\* no step reorders the list; so calls that do not overlap are listed in call
\* order, and a call that settles while an earlier one is still awaited is
\* listed first.
C33_TimingsInSettlementOrder ==
  /\ [](getResults.pageLoadSteps = timings)
  /\ [][/\ IsPrefix(timings, timings')
        /\ (ev'.op = "measureAction" /\ ev'.phase \in {"resolved", "rejected"}) =>
             /\ Len(timings') = Len(timings) + 1
             /\ Last(timings').label = ev'.label
             /\ Last(timings').failed <=> (ev'.phase = "rejected")]_vars

\* Two overlapping calls of one session: the second call settled first and
\* the first call has just settled, so the timing of the second call stands
\* before the timing of the first.
C33_Witness ==
  /\ ev.op = "measureAction"
  /\ ev.label = <<"L">>
  /\ listeners = 1
  /\ Len(timings) = 2
  /\ timings[1].label = <<"L", "L">>
  /\ timings[2].label = <<"L">>

awaited(l) ==
  \E i \in 1..Len(inflight) : inflight[i].kind = "measure" /\ inflight[i].label = l
awaitedAction(l) ==
  \E i \in 1..Len(inflight) :
    inflight[i].kind = "measure" /\ inflight[i].label = l /\ inflight[i].phase = "action"
timingsOf(l) == {k \in 1..Len(timings) : timings[k].label = l}
callLabels == {Repeat(<<"L">>, n) : n \in 1..MaxEvents}
showStoppersOf(l) == {k \in 1..Len(showStoppers) : showStoppers[k].label = l}

\* C34: while the action of a measureAction call is in flight nothing has
\* been appended for that call (so an action that hangs never yields a timing
\* or a showstopper), a call that has returned has appended exactly one
\* timing, and when actions and screenshot captures settle every call in
\* flight eventually returns.
C34_NothingUntilSettled ==
  /\ [](\A l \in callLabels :
          /\ awaitedAction(l) => (timingsOf(l) = {} /\ showStoppersOf(l) = {})
          /\ Cardinality(timingsOf(l)) <= 1
          /\ (awaited(l) /\ ~awaitedAction(l)) => Cardinality(timingsOf(l)) = 1)
  /\ [][\A l \in callLabels :
          (awaited(l) /\ ~awaited(l)') => Cardinality(timingsOf(l)') = 1]_vars
  /\ \A l \in callLabels : awaited(l) ~> ~awaited(l)

\* The first call of the session is still awaiting its action two instants
\* after it was made, with no record under its label, while the second call
\* has returned with its one timing.
C34_Witness ==
  /\ awaitedAction(<<"L">>)
  /\ now = 3
  /\ \E i \in 1..Len(inflight) : inflight[i].label = <<"L">> /\ inflight[i].start = 1
  /\ timingsOf(<<"L">>) = {}
  /\ showStoppersOf(<<"L">>) = {}
  /\ ~awaited(<<"L", "L">>)
  /\ Cardinality(timingsOf(<<"L", "L">>)) = 1

\* C35: a console message observed while Running appends failures exactly
\* when its severity is error, each of them {type = console, error = the
\* message text} and behind the failures recorded before; a message of any
\* other severity appends nothing, and no console message adds a showstopper
\* or a timing.
C35_ConsoleErrorsBecomeFailures ==
  [][(ev'.op = "console" /\ isMonitoring) =>
       /\ (failures' # failures) <=> (ev'.label = <<"error">>)
       /\ IsPrefix(failures, failures')
       /\ \A i \in (Len(failures) + 1)..Len(failures') :
            failures'[i] = [error |-> ev'.error, type |-> "console"]
       /\ UNCHANGED <<showStoppers, timings>>]_vars

\* A Running session that has just seen a console message of severity log:
\* the one failure it holds comes from an earlier console error.
C35_Witness ==
  /\ isMonitoring
  /\ ev.op = "console"
  /\ ev.label = <<"log">>
  /\ failures = <<[error |-> <<"c">>, type |-> "console"]>>

\* C36: handlers do not accumulate over start/stop cycles: in every
\* reachable state at most one handler per event stream is subscribed, so in
\* any Running session one console error appends exactly one failure and one
\* request-finished event with a start instant appends exactly one request
\* detail.
C36_HandlersDoNotAccumulate ==
  /\ [](listeners <= 1)
  /\ [][/\ (isMonitoring /\ ev'.op = "console" /\ ev'.label = <<"error">>) =>
             Len(failures') = Len(failures) + 1
        /\ (isMonitoring /\ ev'.op = "requestfinished"
              /\ requestStartTimes["u1"] # 0) =>
             Len(detailedRequestDurations') = Len(detailedRequestDurations) + 1]_vars

\* C37: every addFailure(error, type, metadata) call made while Running
\* appends exactly one failure whose error and type fields are the error and
\* type arguments, whatever the metadata, also when the metadata has fields
\* named error or type.
C37_AddFailureKeepsErrorAndType ==
  [][(ev'.op = "addFailure" /\ ev'.running) =>
       /\ Len(failures') = Len(failures) + 1
       /\ IsPrefix(failures, failures')
       /\ Last(failures').error = <<"e">>
       /\ Last(failures').type = "custom"]_vars

\* C38: every record of a session comes from an operation that began in that
\* session. Right after an effective start() every call still awaiting its
\* action or its screenshot began in an earlier session, so if the next step
\* is such a call going on past its await, it appends no timing and no
\* showstopper to the new session.
C38_RecordsStayInTheirSession ==
  [][(/\ ev.op = "start"
      /\ ~ev.running
      /\ ev'.op \in {"measureAction", "addShowStopper"}
      /\ ev'.phase \in {"resolved", "rejected", "screenshot"}) =>
       UNCHANGED <<timings, showStoppers>>]_vars

\* C39: whenever a stop() made on a Running session finishes, by returning
\* or by raising for whatever reason, the session is no longer Running, and a
\* start() that follows it opens a fresh session instead of being ignored.
C39_StopAlwaysEndsSession ==
  /\ []((ev.op = "stop" /\ ev.running /\ ev.outcome \in {"returned", "raised"}) =>
          ~isMonitoring)
  /\ [][(/\ ev.op = "stop"
         /\ ev.running
         /\ ev.outcome \in {"returned", "raised"}
         /\ ev'.op = "start") =>
          (~ev'.running /\ ev'.log = "info" /\ isMonitoring' /\ failures' = <<>>
             /\ showStoppers' = <<>>)]_vars

====
